---- MODULE Spec2Model ----
(***************************************************************************)
(* A model of deit_utils/engine.py: the SmoothedValue statistic, the       *)
(* MetricLogger registry with its cross-process synchronisation, the       *)
(* log_every progress iterator, the two contrastive losses, the            *)
(* train_one_epoch step loop and evaluate.                                 *)
(*                                                                         *)
(* Numbers: Python floats are modelled by integers (a value v stands for   *)
(* v units of some fixed resolution); the two non-finite classes the step  *)
(* loop distinguishes are the tokens Inf and NaN below.  A quotient a/b is *)
(* kept as the pair [num |-> a, den |-> b].                                *)
(***************************************************************************)
EXTENDS Integers, Sequences, FiniteSets, TLC

VARIABLES
    sv,       \* SpecMeter: one SmoothedValue
    hist,     \* SpecMeter: the update(value, n) calls applied so far (history)
    gen,      \* SpecLog: the state of one log_every generator and its consumer
    cfg,      \* what every rank shares: args, the data stream length, the group
    pc,       \* per rank, the position in the code
    meters,   \* per rank, MetricLogger.meters in insertion order
    coll,     \* per rank, the collective calls issued so far
    loc       \* per rank, the arguments and locals of the running function

vars == <<sv, hist, gen, cfg, pc, meters, coll, loc>>

meterVars == <<sv, hist>>
logVars == <<gen>>
distVars == <<cfg, pc, meters, coll, loc>>

-----------------------------------------------------------------------------
(* Bounds of the model. *)

MaxWindow == 3      \* window capacities 1..MaxWindow
MaxUpdates == 4     \* update calls on the SpecMeter statistic
MaxWeight == 2      \* weights n in 1..MaxWeight
MeterValues == {1, 2, 5}
MaxLen == 5         \* log_every: stream lengths 0..MaxLen
MaxFreq == 3        \* log_every: print_freq in 1..MaxFreq, and PrintFreq
PrintFreq == 10     \* the print_freq train_one_epoch and evaluate pass
MaxWorld == 2       \* contrastive losses: world sizes 1..MaxWorld
MaxBatch == 2       \* contrastive losses: local batch sizes 1..MaxBatch
LabelSet == {0, 1}  \* contrastive losses: class labels
Ranks == {0, 1}     \* SpecSync/SpecTrain: the ranks of the cooperating processes
MaxMeters == 2      \* SpecSync: registries of 1..MaxMeters statistics
MaxSyncUpdates == 5 \* SpecSync: MetricLogger.update calls per process
SyncValues == {2, 3}
MeterNames == <<"loss", "acc1", "acc5">>
MaxBatches == 2     \* SpecTrain: data streams of 0..MaxBatches batches
BatchSizes == {1, 2}    \* evaluate: images.shape[0] of a batch
\* evaluate: what a batch may give as loss.item(), acc1.item(), acc5.item().
EvalOutcomes == {[loss |-> 1, acc1 |-> 2, acc5 |-> 5], [loss |-> 2, acc1 |-> 1, acc5 |-> 2]}
NumLayers == 1      \* SpecTrain: gating layers collect_moe_activation reports

-----------------------------------------------------------------------------
(* Floats. *)

Inf == -1
NaN == -2

IsFinite(x) == x # Inf /\ x # NaN

\* x + y on floats: NaN absorbs, then Inf (only +inf arises: losses are >= 0).
FAdd(x, y) ==
    IF x = NaN \/ y = NaN THEN NaN
    ELSE IF x = Inf \/ y = Inf THEN Inf
    ELSE x + y

\* value * n for an integer weight n >= 1.
FMul(x, n) ==
    IF x = NaN THEN NaN
    ELSE IF x = Inf THEN Inf
    ELSE x * n

\* SpecTrain: the values criterion(...) and an auxiliary loss may take.
PrimaryLosses == {1, Inf, NaN}
AuxLosses == {1, NaN}

-----------------------------------------------------------------------------
(* SmoothedValue. *)

RECURSIVE SeqSum(_)
SeqSum(s) == IF s = <<>> THEN 0 ELSE Head(s) + SeqSum(Tail(s))

\* SmoothedValue.__init__: deque(maxlen=window_size), total 0.0, count 0.
SmoothedValue(window_size) ==
    [deque |-> <<>>, maxlen |-> window_size, total |-> 0, count |-> 0]

\* A mutant of DequeAppend: a list that never evicts.
DequeAppendNoEvict(d, maxlen, value) == Append(d, value)

\* collections.deque.append on a deque of capacity maxlen: the oldest goes first.
DequeAppend(d, maxlen, value) ==
    IF maxlen = 0 THEN <<>>
    ELSE IF Len(d) >= maxlen THEN Append(Tail(d), value)
    ELSE Append(d, value)

\* A mutant of Update: the weight n is ignored in count.
UpdateCountOne(m, value, n) ==
    [m EXCEPT !.deque = DequeAppend(m.deque, m.maxlen, value),
              !.count = @ + 1,
              !.total = FAdd(@, FMul(value, n))]

\* SmoothedValue.update(value, n).
Update(m, value, n) ==
    [m EXCEPT !.deque = DequeAppend(m.deque, m.maxlen, value),
              !.count = @ + n,
              !.total = FAdd(@, FMul(value, n))]

\* SmoothedValue.global_avg: total / count (ZeroDivisionError when count = 0;
\* the callers below test count first).
GlobalAvg(m) == [num |-> m.total, den |-> m.count]

\* SmoothedValue.median: torch.median of the window, which for an even number
\* of elements is the lower of the two middle ones (defined on a non-empty
\* window).  The tensor conversion is to float32 (explicitly so in avg); the
\* model's values stand for floats that float32 holds exactly.
Median(m) ==
    LET d == m.deque
        k == (Len(d) - 1) \div 2
    IN  CHOOSE x \in {d[i] : i \in 1..Len(d)} :
            /\ Cardinality({i \in 1..Len(d) : d[i] < x}) <= k
            /\ Cardinality({i \in 1..Len(d) : d[i] <= x}) > k

\* SmoothedValue.avg: the mean of the window.
Avg(m) == [num |-> SeqSum(m.deque), den |-> Len(m.deque)]

\* SmoothedValue.max: max(self.deque).
Max(m) ==
    LET d == m.deque
    IN  CHOOSE x \in {d[i] : i \in 1..Len(d)} : \A i \in 1..Len(d) : d[i] <= x

\* SmoothedValue.value: self.deque[-1].
Value(m) == m.deque[Len(m.deque)]

-----------------------------------------------------------------------------
(* Values the variables of the other specifications rest at. *)

IdleGen == [pc |-> "idle"]
IdleSv == [pc |-> "idle"]

MeterIdle == sv = IdleSv /\ hist = <<>>
LogIdle == gen = IdleGen
DistIdle ==
    /\ cfg = [pc |-> "idle"]
    /\ pc = <<>>
    /\ meters = <<>>
    /\ coll = <<>>
    /\ loc = <<>>

-----------------------------------------------------------------------------
(* SpecMeter: one SmoothedValue of some capacity under update calls. *)

InitMeter ==
    /\ \E c \in 1..MaxWindow : sv = SmoothedValue(c)
    /\ hist = <<>>
    /\ LogIdle /\ DistIdle

MeterUpdate ==
    /\ Len(hist) < MaxUpdates
    /\ \E value \in MeterValues, n \in 1..MaxWeight :
        /\ sv' = Update(sv, value, n)
        /\ hist' = Append(hist, [value |-> value, n |-> n])
    /\ UNCHANGED <<logVars, distVars>>

NextMeter == MeterUpdate

SpecMeter == InitMeter /\ [][NextMeter]_vars

RECURSIVE SumWeights(_)
SumWeights(h) == IF h = <<>> THEN 0 ELSE Head(h).n + SumWeights(Tail(h))

RECURSIVE SumWeighted(_)
SumWeighted(h) ==
    IF h = <<>> THEN 0 ELSE Head(h).value * Head(h).n + SumWeighted(Tail(h))

Min2(a, b) == IF a <= b THEN a ELSE b

\* C3: after any non-empty sequence of update(value, n) calls, count is the sum
\* of the weights, total is the sum of value*n, and global_avg is their
\* quotient, whatever the window capacity is.
C3_GlobalAverage ==
    hist # <<>> =>
        /\ sv.count = SumWeights(hist)
        /\ sv.total = SumWeighted(hist)
        /\ GlobalAvg(sv).den > 0
        /\ GlobalAvg(sv).num * SumWeights(hist) = SumWeighted(hist) * GlobalAvg(sv).den

\* A statistic of capacity 1 that took three updates of weight 2, the window
\* long since full: the global average still counts all of them.
C3_Witness ==
    /\ sv.maxlen = 1
    /\ Len(hist) = 3
    /\ \A i \in 1..3 : hist[i].n = 2
    /\ hist[1].value # hist[3].value
    /\ sv.count = 6

\* The indices of hist whose values the window must hold.
WindowFrom == Len(hist) - Min2(sv.maxlen, Len(hist)) + 1

\* C4: the window holds exactly the last min(c, number of updates) raw values
\* in arrival order; median, avg, max and value are those of these values alone
\* (value the most recent), and with c = 1 every view is the latest value.
C4_WindowViews ==
    LET k == Min2(sv.maxlen, Len(hist))
        recent == WindowFrom..Len(hist)
    IN  /\ Len(sv.deque) = k
        /\ \A j \in 1..k : sv.deque[j] = hist[WindowFrom + j - 1].value
        /\ hist # <<>> =>
            /\ Value(sv) = hist[Len(hist)].value
            /\ \E i \in recent : hist[i].value = Max(sv)
            /\ \A i \in recent : hist[i].value <= Max(sv)
            /\ \E i \in recent : hist[i].value = Median(sv)
            /\ Cardinality({i \in recent : hist[i].value < Median(sv)}) <= (k - 1) \div 2
            /\ Cardinality({i \in recent : hist[i].value <= Median(sv)}) > (k - 1) \div 2
            /\ Avg(sv).den = k
            /\ Avg(sv).num = SumWeighted([j \in 1..k |->
                                [value |-> hist[WindowFrom + j - 1].value, n |-> 1]])
            /\ sv.maxlen = 1 =>
                /\ Median(sv) = hist[Len(hist)].value
                /\ Max(sv) = hist[Len(hist)].value
                /\ Avg(sv).num = hist[Len(hist)].value * Avg(sv).den

\* A full window of capacity 2 after a larger, heavier value was evicted.
C4_Witness ==
    /\ sv.maxlen = 2
    /\ Len(hist) = 3
    /\ hist[1].value = 5 /\ hist[1].n = 2
    /\ hist[2].value = 2 /\ hist[3].value = 1
    /\ Max(sv) = 2

-----------------------------------------------------------------------------
(* MetricLogger: meters is the insertion-ordered dict, a sequence of       *)
(* [name, m] entries.                                                      *)

DefaultWindow == 20

HasMeter(ms, name) == \E j \in 1..Len(ms) : ms[j].name = name

MeterAt(ms, name) == CHOOSE j \in 1..Len(ms) : ms[j].name = name

\* self.meters[k] of the defaultdict(SmoothedValue): a missing name is created.
Touch(ms, name) ==
    IF HasMeter(ms, name) THEN ms
    ELSE Append(ms, [name |-> name, m |-> SmoothedValue(DefaultWindow)])

\* MetricLogger.update(name=v) for one keyword: self.meters[k].update(v).
LoggerUpdate(ms, name, v) ==
    LET ms1 == Touch(ms, name)
        j == MeterAt(ms1, name)
    IN  [ms1 EXCEPT ![j].m = Update(@, v, 1)]

\* MetricLogger.update(**kwargs) with the keywords names, in order, all of value v.
RECURSIVE LoggerUpdateAll(_, _, _)
LoggerUpdateAll(ms, names, v) ==
    IF names = <<>> THEN ms
    ELSE LoggerUpdateAll(LoggerUpdate(ms, Head(names), v), Tail(names), v)

\* metric_logger.meters[name].update(value, n=n) (lines 187-188).
MetersUpdate(ms, name, value, n) ==
    LET ms1 == Touch(ms, name)
        j == MeterAt(ms1, name)
    IN  [ms1 EXCEPT ![j].m = Update(@, value, n)]

\* Lines 186-188 of evaluate: the loss of the batch, and its two accuracies
\* weighted by the batch size.
EvaluateBody(ms, out, batch_size) ==
    MetersUpdate(MetersUpdate(LoggerUpdate(ms, "loss", out.loss),
                              "acc1", out.acc1, batch_size),
                 "acc5", out.acc5, batch_size)

\* MetricLogger.add_meter(name, meter).
AddMeter(ms, name, meter) ==
    IF HasMeter(ms, name)
    THEN [ms EXCEPT ![MeterAt(ms, name)].m = meter]
    ELSE Append(ms, [name |-> name, m |-> meter])

-----------------------------------------------------------------------------
(* Collectives.  coll[r] lists the collective calls rank r has issued; its *)
(* c-th call returns once every rank of the group (the domain of coll) has *)
(* issued its c-th call and these are calls of the same operation.         *)

CollectivePcs == {"gather_k", "gather_label", "barrier", "all_reduce"}

\* A mutant of CollectiveComplete: a collective that does not wait for a rank
\* that has raised.
CollectiveCompleteLive(r) ==
    LET c == Len(coll[r])
    IN  /\ c > 0
        /\ \A q \in DOMAIN coll :
            \/ pc[q] = "ValueError"
            \/ Len(coll[q]) >= c /\ coll[q][c].op = coll[r][c].op

\* Whether the collective rank r is waiting in (its last issued one) can return.
CollectiveComplete(r) ==
    LET c == Len(coll[r])
    IN  /\ c > 0
        /\ \A q \in DOMAIN coll : Len(coll[q]) >= c /\ coll[q][c].op = coll[r][c].op

RECURSIVE FSumOver(_, _, _)
FSumOver(S, c, field) ==
    IF S = {} THEN 0
    ELSE LET q == CHOOSE x \in S : TRUE
         IN  FAdd(coll[q][c].t[field], FSumOver(S \ {q}, c, field))

\* A mutant of AllReduce: the reduction takes the maximum, not the sum.
AllReduceMax(c) ==
    [count |-> (CHOOSE x \in {coll[q][c].t.count : q \in Ranks} :
                    \A q \in Ranks : coll[q][c].t.count <= x),
     total |-> (CHOOSE x \in {coll[q][c].t.total : q \in Ranks} :
                    \A q \in Ranks : coll[q][c].t.total <= x)]

\* dist.all_reduce(t) of the c-th collective: the element-wise sum over the ranks.
AllReduce(c) ==
    [count |-> FSumOver(Ranks, c, "count"), total |-> FSumOver(Ranks, c, "total")]

\* A mutant of SyncFirstOp: only the first statistic's synchronisation calls the barrier.
SyncFirstOpOnce(k) == IF k = 1 THEN "barrier" ELSE "all_reduce"

\* The first collective SmoothedValue.synchronize_between_processes calls for
\* the k-th statistic of the registry (line 232).
SyncFirstOp(k) == "barrier"

\* Line 231 and the first collective call for the k-th meter of rank r, or
\* the end of MetricLogger.synchronize_between_processes when there is none.
\* (loc[r].local, history, keeps the registry as it was when the
\* synchronisation began.)
SyncEnter(r, ms, k) ==
    IF k > Len(ms)
    THEN /\ pc' = [pc EXCEPT ![r] = "synced"]
         /\ loc' = [loc EXCEPT ![r].k = k, ![r].local = IF k = 1 THEN ms ELSE @]
         /\ coll' = coll
    ELSE LET t == [count |-> ms[k].m.count, total |-> ms[k].m.total]
         IN  /\ pc' = [pc EXCEPT ![r] = SyncFirstOp(k)]
             /\ loc' = [loc EXCEPT ![r].k = k, ![r].t = t,
                                    ![r].local = IF k = 1 THEN ms ELSE @]
             /\ coll' = [coll EXCEPT ![r] = Append(@, [op |-> SyncFirstOp(k), t |-> t])]

\* MetricLogger.synchronize_between_processes is called (line 159, 191).
SyncBegin(r) ==
    /\ pc[r] = "sync"
    /\ SyncEnter(r, meters[r], 1)
    /\ UNCHANGED <<cfg, meters, meterVars, logVars>>

\* dist.barrier() returns; dist.all_reduce(t) is called (lines 232-233).
BarrierReturn(r) ==
    /\ pc[r] = "barrier"
    /\ CollectiveComplete(r)
    /\ pc' = [pc EXCEPT ![r] = "all_reduce"]
    /\ coll' = [coll EXCEPT ![r] = Append(@, [op |-> "all_reduce", t |-> loc[r].t])]
    /\ UNCHANGED <<cfg, meters, loc, meterVars, logVars>>

\* dist.all_reduce(t) returns; count and total are taken from t (lines
\* 233-236), and the loop of line 299 goes on to the next meter.
AllReduceReturn(r) ==
    /\ pc[r] = "all_reduce"
    /\ CollectiveComplete(r)
    /\ LET t == AllReduce(Len(coll[r]))
           k == loc[r].k
           ms == [meters[r] EXCEPT ![k].m.count = t.count, ![k].m.total = t.total]
       IN  /\ meters' = [meters EXCEPT ![r] = ms]
           /\ SyncEnter(r, ms, k + 1)
    /\ UNCHANGED <<cfg, meterVars, logVars>>

-----------------------------------------------------------------------------
(* SpecLog: MetricLogger.log_every driven to exhaustion by a consumer, the *)
(* loop of evaluate.  gen.meters is the logger's registry, gen.lines is    *)
(* what self.log.info received, in order; gen.processed is the number of   *)
(* items whose loop body the consumer has finished.                        *)

\* A progress line (lines 330-343): the index, the length, the meters as
\* str(self) shows them, and the memory field when cuda is available.
ProgressLine(i, len, processed, ms, cuda) ==
    [kind |-> "progress", i |-> i, len |-> len, processed |-> processed,
     meters |-> ms, memory |-> cuda]

SummaryLine(processed) ==
    [kind |-> "summary", i |-> -1, len |-> -1, processed |-> processed,
     meters |-> <<>>, memory |-> FALSE]

InitLog ==
    /\ \E L \in 0..MaxLen, print_freq \in (1..MaxFreq) \cup {PrintFreq}, cuda \in BOOLEAN :
        gen = [pc |-> "created", len |-> L, print_freq |-> print_freq, cuda |-> cuda,
               i |-> 0, processed |-> 0, lines |-> <<>>, meters |-> <<>>,
               iter_time |-> SmoothedValue(DefaultWindow),
               data_time |-> SmoothedValue(DefaultWindow)]
    /\ MeterIdle /\ DistIdle

\* The end of the for loop (lines 346-349): the summary line, whose average
\* divides by len(iterable); the division is evaluated before log.info is called.
LogEveryExhausted(g) ==
    IF g.len = 0
    THEN [g EXCEPT !.pc = "ZeroDivisionError"]
    ELSE [g EXCEPT !.pc = "done", !.lines = Append(@, SummaryLine(g.processed))]

\* The top of the for loop (lines 326-328): the next item is yielded, if any.
LogEveryLoop(g) ==
    IF g.i < g.len
    THEN [g EXCEPT !.pc = "yielded", !.data_time = Update(@, 1, 1)]
    ELSE LogEveryExhausted(g)

\* The rest of the loop body after the consumer resumes the generator
\* (lines 329-345).
LogEveryAfterYield(g) ==
    LET g1 == [g EXCEPT !.iter_time = Update(@, 1, 1)]
        g2 == IF g1.i % g1.print_freq = 0 \/ g1.i = g1.len - 1
              THEN [g1 EXCEPT !.lines =
                        Append(@, ProgressLine(g1.i, g1.len, g1.processed,
                                               g1.meters, g1.cuda))]
              ELSE g1
    IN  [g2 EXCEPT !.i = @ + 1]

\* The consumer's first next(): lines 306-325, then the loop.
LogEveryStart ==
    /\ gen.pc = "created"
    /\ gen' = LogEveryLoop(gen)
    /\ UNCHANGED <<meterVars, distVars>>

\* The consumer runs its loop body on the yielded item: the body of
\* evaluate's loop (lines 175-188), which records the batch in the registry.
ConsumerBody ==
    /\ gen.pc = "yielded"
    /\ \E out \in EvalOutcomes, batch_size \in BatchSizes :
        gen' = [gen EXCEPT !.pc = "processed",
                           !.processed = @ + 1,
                           !.meters = EvaluateBody(@, out, batch_size)]
    /\ UNCHANGED <<meterVars, distVars>>

\* The consumer's next next(): the generator resumes after its yield.
LogEveryResume ==
    /\ gen.pc = "processed"
    /\ gen' = LogEveryLoop(LogEveryAfterYield(gen))
    /\ UNCHANGED <<meterVars, distVars>>

NextLog == LogEveryStart \/ ConsumerBody \/ LogEveryResume

SpecLog == InitLog /\ [][NextLog]_vars

\* The indices log_every is to report, in order.
RECURSIVE LoggedIndices(_, _, _)
LoggedIndices(i, len, print_freq) ==
    IF i >= len THEN <<>>
    ELSE (IF i % print_freq = 0 \/ i = len - 1 THEN <<i>> ELSE <<>>)
         \o LoggedIndices(i + 1, len, print_freq)

LogEveryOver == gen.pc \in {"done", "ZeroDivisionError"}

\* C8: for any length L >= 0 and print_freq >= 1, driving log_every to
\* exhaustion sends one progress line for each index i with i % print_freq = 0
\* or i = L-1 and for no other, each after the consumer finished item i (the
\* line shows the meters with item i recorded), and then exactly one summary
\* line.
C8_LogLines ==
    LogEveryOver =>
        LET want == LoggedIndices(0, gen.len, gen.print_freq)
        IN  /\ Len(gen.lines) = Len(want) + 1
            /\ \A j \in 1..Len(want) :
                /\ gen.lines[j].kind = "progress"
                /\ gen.lines[j].i = want[j]
                /\ gen.lines[j].processed = want[j] + 1
                /\ gen.lines[j].meters[MeterAt(gen.lines[j].meters, "loss")].m.count
                        = want[j] + 1
            /\ gen.lines[Len(gen.lines)].kind = "summary"
            /\ gen.lines[Len(gen.lines)].processed = gen.len

\* The same for the non-empty streams, on which the code does this.
C8_NonEmpty == (gen.len = 0) \/ C8_LogLines

-----------------------------------------------------------------------------
(* SpecContrast: every process of a group of cfg.world ranks, or one       *)
(* process without a group, calls contrastive_loss or                      *)
(* supervised_contrastive_loss once on its batch of cfg.N samples.         *)
(* loc[r] holds the call of rank r: the function, the label argument, the  *)
(* gathered keys and labels and the result.  A key is named by its owner   *)
(* and row, <<rank, n>>; a logit is "fin" (a dot product of normalised     *)
(* rows over temp) or "-inf" (masked).                                     *)

\* torch.distributed.get_rank() on rank r: the rank within the default
\* process group, which must have been initialised.
GetRank(initialized, r) ==
    IF initialized THEN [ok |-> TRUE, v |-> r] ELSE [ok |-> FALSE, v |-> -1]

\* The normalised keys rank r holds (lines 28, 45).
Keys(r, N) == [n \in 0..(N - 1) |-> <<r, n>>]

\* moco.builder.concat_all_gather once the c-th collective is complete: the
\* tensors the ranks passed, concatenated in rank order.
ConcatAllGather(c, N) ==
    [m \in 0..(Cardinality(DOMAIN coll) * N - 1) |-> coll[m \div N][c].t[m % N]]

\* A mutant of LabelMask: line 65, which keeps the positive, is left out.
LabelMaskNoPositive(label_q, label_k, N, rank) ==
    [n \in 0..(N - 1) |->
        [m \in DOMAIN label_k |-> label_q[n] # label_k[m]]]

\* Lines 56-65: label_mask[n][m] is TRUE where the labels differ, and at the
\* positive index n + N*rank.
LabelMask(label_q, label_k, N, rank) ==
    [n \in 0..(N - 1) |->
        [m \in DOMAIN label_k |->
            IF m = n + N * rank THEN TRUE
            ELSE (IF label_q[n] - label_k[m] >= 0
                  THEN label_q[n] - label_k[m] ELSE label_k[m] - label_q[n]) > 0]]

\* nn.CrossEntropyLoss of rows of logits against the targets: finite when
\* every row's target logit is finite; a row whose target is masked gives inf,
\* and NaN when the whole row is masked.
CrossEntropy(logits, targets) ==
    IF \A n \in DOMAIN logits : logits[n][targets[n]] = "fin" THEN "fin"
    ELSE IF \E n \in DOMAIN logits : \A m \in DOMAIN logits[n] : logits[n][m] = "-inf"
    THEN "nan"
    ELSE "inf"

\* supervised_contrastive_loss from line 56 on, with the keys k and the labels
\* label_k as gathered (or local) and the rank of lines 60-63.
SupervisedContrastiveLoss(label_q, k, label_k, N, rank) ==
    LET label_mask == LabelMask(label_q, label_k, N, rank)
        logits == [n \in 0..(N - 1) |->
                    [m \in DOMAIN k |-> IF label_mask[n][m] THEN "fin" ELSE "-inf"]]
        targets == [n \in 0..(N - 1) |-> n + N * rank]
    IN  [status |-> "ok", rank |-> rank, logits |-> logits,
         targets |-> targets, loss |-> CrossEntropy(logits, targets)]

\* contrastive_loss from line 32 on, with the keys k as gathered; rank is what
\* get_rank() gives, called whether or not a process group exists.
ContrastiveLoss(k, N, rank) ==
    LET logits == [n \in 0..(N - 1) |-> [m \in DOMAIN k |-> "fin"]]
        targets == [n \in 0..(N - 1) |-> n + N * rank.v]
    IN  IF ~rank.ok
        THEN [status |-> "RuntimeError", rank |-> -1,
              logits |-> <<>>, targets |-> <<>>, loss |-> "none"]
        ELSE [status |-> "ok", rank |-> rank.v, logits |-> logits,
              targets |-> targets, loss |-> CrossEntropy(logits, targets)]

InitContrast ==
    /\ \E initialized \in BOOLEAN, world \in 1..MaxWorld, N \in 1..MaxBatch :
        /\ ~initialized => world = 1
        /\ cfg = [kind |-> "contrast", initialized |-> initialized,
                  world |-> world, N |-> N]
        /\ \E labels \in [0..(world - 1) -> [0..(N - 1) -> LabelSet]] :
            loc = [r \in 0..(world - 1) |->
                    [fn |-> "none", label |-> labels[r], k |-> <<>>, label_k |-> <<>>,
                     result |-> [status |-> "none"]]]
        /\ pc = [r \in 0..(world - 1) |-> "ready"]
        /\ meters = [r \in 0..(world - 1) |-> <<>>]
        /\ coll = [r \in 0..(world - 1) |-> <<>>]
    /\ MeterIdle /\ LogIdle

\* supervised_contrastive_loss is called on rank r.  In a group it gathers
\* the keys (line 48) and waits there; without one it runs through with the
\* local keys and labels and rank 0.
SupervisedCall(r) ==
    /\ r \in DOMAIN pc
    /\ pc[r] = "ready"
    /\ IF cfg.initialized
       THEN /\ pc' = [pc EXCEPT ![r] = "sup_gather_k"]
            /\ coll' = [coll EXCEPT ![r] =
                            Append(@, [op |-> "all_gather", t |-> Keys(r, cfg.N)])]
            /\ loc' = [loc EXCEPT ![r].fn = "supervised"]
       ELSE /\ pc' = [pc EXCEPT ![r] = "evaluated"]
            /\ coll' = coll
            /\ loc' = [loc EXCEPT
                        ![r].fn = "supervised",
                        ![r].k = Keys(r, cfg.N),
                        ![r].label_k = loc[r].label,
                        ![r].result = SupervisedContrastiveLoss(
                                        loc[r].label, Keys(r, cfg.N), loc[r].label, cfg.N, 0)]
    /\ UNCHANGED <<cfg, meters, meterVars, logVars>>

\* The gather of the keys returns on rank r, every rank having entered it;
\* the labels are gathered next (line 53).
SupervisedGatherK(r) ==
    /\ r \in DOMAIN pc
    /\ pc[r] = "sup_gather_k"
    /\ CollectiveComplete(r)
    /\ pc' = [pc EXCEPT ![r] = "sup_gather_label"]
    /\ coll' = [coll EXCEPT ![r] = Append(@, [op |-> "all_gather", t |-> loc[r].label])]
    /\ loc' = [loc EXCEPT ![r].k = ConcatAllGather(Len(coll[r]), cfg.N)]
    /\ UNCHANGED <<cfg, meters, meterVars, logVars>>

\* The gather of the labels returns on rank r; lines 56-78 follow.
SupervisedGatherLabel(r) ==
    /\ r \in DOMAIN pc
    /\ pc[r] = "sup_gather_label"
    /\ CollectiveComplete(r)
    /\ LET label_k == ConcatAllGather(Len(coll[r]), cfg.N)
           rank == GetRank(cfg.initialized, r).v
       IN  loc' = [loc EXCEPT
                    ![r].label_k = label_k,
                    ![r].result = SupervisedContrastiveLoss(
                                    loc[r].label, loc[r].k, label_k, cfg.N, rank)]
    /\ pc' = [pc EXCEPT ![r] = "evaluated"]
    /\ UNCHANGED <<cfg, meters, coll, meterVars, logVars>>

\* contrastive_loss is called on rank r.  In a group it gathers the keys
\* (line 30) and waits there; without one no collective is in flight (the
\* gather of one process hands back the local keys) and get_rank() raises.
ContrastiveCall(r) ==
    /\ r \in DOMAIN pc
    /\ pc[r] = "ready"
    /\ IF cfg.initialized
       THEN /\ pc' = [pc EXCEPT ![r] = "con_gather_k"]
            /\ coll' = [coll EXCEPT ![r] =
                            Append(@, [op |-> "all_gather", t |-> Keys(r, cfg.N)])]
            /\ loc' = [loc EXCEPT ![r].fn = "contrastive"]
       ELSE LET result == ContrastiveLoss(Keys(r, cfg.N), cfg.N,
                                          GetRank(cfg.initialized, r))
            IN  /\ pc' = [pc EXCEPT ![r] = IF result.status = "ok"
                                           THEN "evaluated" ELSE result.status]
                /\ coll' = coll
                /\ loc' = [loc EXCEPT ![r].fn = "contrastive",
                                      ![r].k = Keys(r, cfg.N),
                                      ![r].result = result]
    /\ UNCHANGED <<cfg, meters, meterVars, logVars>>

\* The gather of the keys returns on rank r; lines 32-37 follow.
ContrastiveGatherK(r) ==
    /\ r \in DOMAIN pc
    /\ pc[r] = "con_gather_k"
    /\ CollectiveComplete(r)
    /\ LET k == ConcatAllGather(Len(coll[r]), cfg.N)
           result == ContrastiveLoss(k, cfg.N, GetRank(cfg.initialized, r))
       IN  /\ loc' = [loc EXCEPT ![r].k = k, ![r].result = result]
           /\ pc' = [pc EXCEPT ![r] = IF result.status = "ok"
                                      THEN "evaluated" ELSE result.status]
    /\ UNCHANGED <<cfg, meters, coll, meterVars, logVars>>

NextContrast ==
    \E r \in 0..(MaxWorld - 1) :
        \/ SupervisedCall(r)
        \/ SupervisedGatherK(r)
        \/ SupervisedGatherLabel(r)
        \/ ContrastiveCall(r)
        \/ ContrastiveGatherK(r)

SpecContrast == InitContrast /\ [][NextContrast]_vars

SupervisedDone(r) == pc[r] = "evaluated" /\ loc[r].fn = "supervised"

\* The labels of the gathered keys, rank after rank.
GatheredLabel(m) == loc[m \div cfg.N].label[m % cfg.N]

\* C6 as claimed: logits[n,m] is -inf exactly when the labels of n and m
\* differ and m is not the positive index n + rank*N.
C6_MaskWhereLabelsDiffer ==
    \A r \in DOMAIN pc : SupervisedDone(r) =>
        \A n \in 0..(cfg.N - 1) : \A m \in 0..(cfg.world * cfg.N - 1) :
            (loc[r].result.logits[n][m] = "-inf") <=>
                (loc[r].label[n] # GatheredLabel(m) /\ m # n + r * cfg.N)

\* C6 as the code has it: logits[n,m] is -inf exactly when the labels of n and
\* m are equal and m is not the positive index n + rank*N; the positive entry
\* is never masked, so every row keeps a finite entry.
C6_MaskWhereLabelsEqual ==
    \A r \in DOMAIN pc : SupervisedDone(r) =>
        /\ \A n \in 0..(cfg.N - 1) : \A m \in 0..(cfg.world * cfg.N - 1) :
            (loc[r].result.logits[n][m] = "-inf") <=>
                (loc[r].label[n] = GatheredLabel(m) /\ m # n + r * cfg.N)
        /\ \A n \in 0..(cfg.N - 1) :
            /\ loc[r].result.logits[n][n + r * cfg.N] = "fin"
            /\ \E m \in 0..(cfg.world * cfg.N - 1) : loc[r].result.logits[n][m] = "fin"

\* Rank 1 of two, batch of two with equal labels, both gathers done: the
\* other local sample and a same-label key of rank 0 are masked, a
\* different-label key is kept.
C6_Witness ==
    /\ cfg.world = 2 /\ cfg.N = 2
    /\ SupervisedDone(1)
    /\ Len(coll[1]) = 2
    /\ loc[1].label[0] = loc[1].label[1]
    /\ loc[0].label[0] = loc[1].label[0]
    /\ loc[0].label[1] # loc[1].label[0]
    /\ loc[1].label_k = [m \in 0..3 |-> GatheredLabel(m)]
    /\ loc[1].result.logits[0][3] = "-inf"
    /\ loc[1].result.logits[0][0] = "-inf"
    /\ loc[1].result.logits[0][1] = "fin"
    /\ loc[1].result.logits[0][2] = "fin"

\* C9: with no distributed group in use, contrastive_loss completes without
\* error, takes the rank as 0 and uses index n as the positive of sample n,
\* as supervised_contrastive_loss does there.
C9_SingleProcess ==
    \A r \in DOMAIN pc :
        (pc[r] \in {"evaluated", "RuntimeError"} /\ ~cfg.initialized) =>
            /\ loc[r].result.status = "ok"
            /\ loc[r].result.rank = 0
            /\ \A n \in 0..(cfg.N - 1) : loc[r].result.targets[n] = n

-----------------------------------------------------------------------------
(* SpecSync: every rank fills a registry of K statistics by                *)
(* MetricLogger.update calls and then synchronises it.  loc[r].local is    *)
(* history: the registry as it was when the synchronisation began.         *)

InitSync ==
    /\ \E K \in 1..MaxMeters : cfg = [kind |-> "sync", names |-> SubSeq(MeterNames, 1, K)]
    /\ pc = [r \in Ranks |-> "client"]
    /\ meters = [r \in Ranks |-> <<>>]
    /\ coll = [r \in Ranks |-> <<>>]
    /\ loc = [r \in Ranks |-> [k |-> 0, t |-> [count |-> 0, total |-> 0],
                               updates |-> 0, local |-> <<>>]]
    /\ MeterIdle /\ LogIdle

\* metric_logger.update(loss=v, ...) on rank r.
ClientUpdate(r) ==
    /\ pc[r] = "client"
    /\ loc[r].updates < MaxSyncUpdates
    /\ \E v \in SyncValues :
        meters' = [meters EXCEPT ![r] = LoggerUpdateAll(@, cfg.names, v)]
    /\ loc' = [loc EXCEPT ![r].updates = @ + 1]
    /\ UNCHANGED <<cfg, pc, coll, meterVars, logVars>>

\* metric_logger.synchronize_between_processes() on rank r, once it has
\* updated every statistic.
ClientSync(r) ==
    /\ pc[r] = "client"
    /\ loc[r].updates > 0
    /\ SyncEnter(r, meters[r], 1)
    /\ UNCHANGED <<cfg, meters, meterVars, logVars>>

NextSync ==
    \E r \in Ranks :
        \/ ClientUpdate(r)
        \/ ClientSync(r)
        \/ BarrierReturn(r)
        \/ AllReduceReturn(r)

SpecSync == InitSync /\ [][NextSync]_vars

Synced(r) == pc[r] = "synced"

RECURSIVE SumCounts(_, _)
SumCounts(S, k) ==
    IF S = {} THEN 0
    ELSE LET q == CHOOSE x \in S : TRUE
         IN  loc[q].local[k].m.count + SumCounts(S \ {q}, k)

RECURSIVE SumTotals(_, _)
SumTotals(S, k) ==
    IF S = {} THEN 0
    ELSE LET q == CHOOSE x \in S : TRUE
         IN  loc[q].local[k].m.total + SumTotals(S \ {q}, k)

\* C5: once synchronize_between_processes has completed on a rank, each of its
\* statistics holds the sum of the ranks' local counts and the sum of their
\* local totals, and its window is as it was before the call.
C5_SyncSums ==
    \A r \in Ranks : Synced(r) =>
        \A k \in 1..Len(meters[r]) :
            /\ meters[r][k].m.count = SumCounts(Ranks, k)
            /\ meters[r][k].m.total = SumTotals(Ranks, k)
            /\ meters[r][k].m.deque = loc[r].local[k].m.deque
            /\ meters[r][k].m.maxlen = loc[r].local[k].m.maxlen

\* The spec's example: local (count, total) of (3, 9.0) and (5, 10.0) merge to
\* count 8, total 19.0 and global_avg 19/8 = 2.375 on both ranks, the windows
\* still holding the local values.
C5_Witness ==
    /\ \A r \in Ranks : Synced(r)
    /\ loc[0].local[1].m.count = 3 /\ loc[0].local[1].m.total = 9
    /\ loc[1].local[1].m.count = 5 /\ loc[1].local[1].m.total = 10
    /\ \A r \in Ranks :
        /\ meters[r][1].m.count = 8
        /\ meters[r][1].m.total = 19
        /\ GlobalAvg(meters[r][1].m).num * 8 = 19 * GlobalAvg(meters[r][1].m).den
    /\ meters[0][1].m.deque = <<3, 3, 3>>
    /\ meters[1][1].m.deque = <<2, 2, 2, 2, 2>>

Ops(r) == [j \in 1..Len(coll[r]) |-> coll[r][j].op]

CountOps(r, op) == Cardinality({j \in 1..Len(coll[r]) : coll[r][j].op = op})

\* C10 as claimed: synchronising a registry of K statistics performs exactly
\* one barrier, before all K reductions.
C10_SingleBarrier ==
    \A r \in Ranks : Synced(r) =>
        /\ CountOps(r, "barrier") = 1
        /\ CountOps(r, "all_reduce") = Len(meters[r])
        /\ coll[r][1].op = "barrier"

\* C10 as the code has it: synchronising a registry of K statistics performs K
\* barriers and K reductions, each statistic's barrier right before its
\* reduction: barrier, reduction, barrier, reduction, ...
C10_BarrierPerStatistic ==
    \A r \in Ranks : Synced(r) =>
        /\ Len(coll[r]) = 2 * Len(meters[r])
        /\ \A k \in 1..Len(meters[r]) :
            /\ coll[r][2 * k - 1].op = "barrier"
            /\ coll[r][2 * k].op = "all_reduce"

\* A registry of two statistics synchronised on every rank.
C10_Witness ==
    /\ \A r \in Ranks : Synced(r) /\ Len(meters[r]) = 2
    /\ Ops(0) = <<"barrier", "all_reduce", "barrier", "all_reduce">>

-----------------------------------------------------------------------------
(* SpecTrain: train_one_epoch, or evaluate, on every rank of a distributed  *)
(* run.  cfg holds the function, args (the same on every rank) and         *)
(* len(data_loader).                                                       *)
(* loc[r] holds the locals of rank r and the objects passed in:            *)
(*   optimizer  lr of param_groups[0], and how often zero_grad and step    *)
(*              have run;                                                  *)
(*   model      the version of the parameters (one per optimizer step);    *)
(*   ema        the version of the parameters the shadow model was last    *)
(*              updated from;                                              *)
(*   backward   the losses loss_scaler was called with (history);          *)
(*   prev       optimizer, model and ema as the last batch left them       *)
(*              (history).                                                 *)

\* utils.lr_sched.adjust_learning_rate(optimizer, progress, args): the lr of
\* the schedule at this progress is written into the optimizer.  lr 0 stands
\* for the value the epoch began with, lr i+1 for the schedule's value at
\* data_iter_step i.
AdjustLearningRate(optimizer, data_iter_step) ==
    [optimizer EXCEPT !.lr = data_iter_step + 1]

\* optimizer.zero_grad().
ZeroGrad(l) == [l EXCEPT !.optimizer.zero_grads = @ + 1]

\* loss_scaler(loss, optimizer, ...): the backward pass and the optimizer step.
LossScaler(l, loss) ==
    [l EXCEPT !.backward = Append(@, loss),
              !.optimizer.steps = @ + 1,
              !.model = @ + 1]

\* model_ema.update(model), when a shadow model is configured.
EmaUpdate(l) == IF cfg.model_ema THEN [l EXCEPT !.ema = l.model] ELSE l

\* A mutant of CheckAndStep: the finiteness check comes after the step.
CheckAfterStep(l) ==
    LET l1 == EmaUpdate(LossScaler(ZeroGrad(l), l.loss))
    IN  IF ~IsFinite(l.loss_value) THEN [l1 EXCEPT !.raised = TRUE] ELSE l1

\* Lines 141-153: the check of loss_value (taken from the primary loss at
\* line 114), then zero_grad, the scaler and the shadow model.
CheckAndStep(l) ==
    IF ~IsFinite(l.loss_value)
    THEN [l EXCEPT !.raised = TRUE]
    ELSE EmaUpdate(LossScaler(ZeroGrad(l), l.loss))

InitOptimizer == [lr |-> 0, zero_grads |-> 0, steps |-> 0]

\* train_one_epoch is called with some args on a stream of some length;
\* lines 86-90: the logger with its 'lr' meter.
InitTrainOneEpoch ==
    /\ \E L \in 0..MaxBatches, w \in {0, 1}, sup \in BOOLEAN, moe \in BOOLEAN,
          kaiming \in BOOLEAN, ema \in BOOLEAN :
        /\ w = 0 => ~sup
        /\ cfg = [kind |-> "train", fn |-> "train_one_epoch", len |-> L,
                  moe_contrastive_weight |-> w,
                  moe_contrastive_supervised |-> sup, moe_vit |-> moe,
                  kaiming_sched |-> kaiming, model_ema |-> ema]
    /\ meters = [r \in Ranks |-> AddMeter(<<>>, "lr", SmoothedValue(1))]

\* evaluate is called on a stream of some length; lines 166-172: the logger
\* with no meter yet.  (The args of train_one_epoch rest at their off values.)
InitEvaluate ==
    /\ \E L \in 0..MaxBatches :
        cfg = [kind |-> "train", fn |-> "evaluate", len |-> L,
               moe_contrastive_weight |-> 0,
               moe_contrastive_supervised |-> FALSE, moe_vit |-> FALSE,
               kaiming_sched |-> FALSE, model_ema |-> FALSE]
    /\ meters = [r \in Ranks |-> <<>>]

InitTrain ==
    /\ InitTrainOneEpoch \/ InitEvaluate
    /\ pc = [r \in Ranks |-> "loop"]
    /\ coll = [r \in Ranks |-> <<>>]
    /\ loc = [r \in Ranks |->
                [i |-> 0, loss_value |-> 0, loss |-> 0, loss_gate |-> 0, layer |-> 0,
                 raised |-> FALSE, optimizer |-> InitOptimizer, model |-> 0, ema |-> 0,
                 backward |-> <<>>,
                 prev |-> [optimizer |-> InitOptimizer, model |-> 0, ema |-> 0],
                 k |-> 0, t |-> [count |-> 0, total |-> 0], local |-> <<>>,
                 result |-> <<>>]]
    /\ MeterIdle /\ LogIdle

\* log_every yields the next batch; lines 95-114: the lr schedule, the forward
\* pass, the primary loss and loss_value.
BatchForward(r) ==
    /\ cfg.fn = "train_one_epoch"
    /\ pc[r] = "loop"
    /\ loc[r].i < cfg.len
    /\ \E primary \in PrimaryLosses :
        loc' = [loc EXCEPT
                  ![r].optimizer = IF cfg.kaiming_sched
                                   THEN AdjustLearningRate(@, loc[r].i) ELSE @,
                  ![r].loss = primary,
                  ![r].loss_value = primary,
                  ![r].loss_gate = 0,
                  ![r].layer = 1]
    /\ pc' = [pc EXCEPT ![r] = IF cfg.moe_contrastive_weight > 0 THEN "gate" ELSE "compose"]
    /\ UNCHANGED <<cfg, meters, coll, meterVars, logVars>>

\* log_every yields the next batch to evaluate; lines 175-188: the forward
\* pass, the loss and the accuracies, recorded in the registry.
EvaluateBatch(r) ==
    /\ cfg.fn = "evaluate"
    /\ pc[r] = "loop"
    /\ loc[r].i < cfg.len
    /\ \E out \in EvalOutcomes, batch_size \in BatchSizes :
        meters' = [meters EXCEPT ![r] = EvaluateBody(@, out, batch_size)]
    /\ loc' = [loc EXCEPT ![r].i = @ + 1]
    /\ UNCHANGED <<cfg, pc, coll, meterVars, logVars>>

\* log_every is exhausted: its summary line divides by len(iterable); then
\* line 159 (in evaluate line 191) is reached.
StreamEnd(r) ==
    /\ pc[r] = "loop"
    /\ loc[r].i >= cfg.len
    /\ pc' = [pc EXCEPT ![r] = IF cfg.len = 0 THEN "ZeroDivisionError" ELSE "sync"]
    /\ UNCHANGED <<cfg, meters, coll, loc, meterVars, logVars>>

\* Lines 129/131 for one gating layer: the contrastive loss is called and
\* gathers the keys (line 30, or line 48 in an initialised group).
GateLoss(r) ==
    /\ pc[r] = "gate"
    /\ pc' = [pc EXCEPT ![r] = "gather_k"]
    /\ coll' = [coll EXCEPT ![r] = Append(@, [op |-> "all_gather", t |-> "k"])]
    /\ UNCHANGED <<cfg, meters, loc, meterVars, logVars>>

\* The contrastive loss of one layer returns some value, which is weighted
\* and added to loss_gate (lines 129/131).
GateLossReturn(r) ==
    /\ \E v \in AuxLosses :
        loc' = [loc EXCEPT ![r].loss_gate = FAdd(@, FMul(v, cfg.moe_contrastive_weight)),
                           ![r].layer = @ + 1]
    /\ pc' = [pc EXCEPT ![r] = IF loc[r].layer < NumLayers THEN "gate" ELSE "compose"]

\* The gather of the keys returns; the supervised loss gathers the labels
\* next (line 53), the unsupervised one finishes.
GatherKReturn(r) ==
    /\ pc[r] = "gather_k"
    /\ CollectiveComplete(r)
    /\ IF cfg.moe_contrastive_supervised
       THEN /\ pc' = [pc EXCEPT ![r] = "gather_label"]
            /\ coll' = [coll EXCEPT ![r] = Append(@, [op |-> "all_gather", t |-> "label"])]
            /\ loc' = loc
       ELSE /\ GateLossReturn(r)
            /\ coll' = coll
    /\ UNCHANGED <<cfg, meters, meterVars, logVars>>

\* The gather of the labels returns; the supervised loss finishes.
GatherLabelReturn(r) ==
    /\ pc[r] = "gather_label"
    /\ CollectiveComplete(r)
    /\ GateLossReturn(r)
    /\ UNCHANGED <<cfg, meters, coll, meterVars, logVars>>

\* Lines 133-156: loss_gate is recorded and added, the load-balance loss is
\* added, loss_value is checked, and the step and the metric updates follow.
BatchStep(r) ==
    /\ pc[r] = "compose"
    /\ \E loss_load \in (IF cfg.moe_vit THEN AuxLosses ELSE {0}) :
        LET l == loc[r]
            contrast == cfg.moe_contrastive_weight > 0
            ms1 == IF contrast THEN LoggerUpdate(meters[r], "loss_gate", l.loss_gate)
                   ELSE meters[r]
            loss1 == IF contrast THEN FAdd(l.loss, l.loss_gate) ELSE l.loss
            loss2 == IF cfg.moe_vit THEN FAdd(loss1, loss_load) ELSE loss1
            l2 == CheckAndStep([l EXCEPT !.loss = loss2])
        IN  IF l2.raised
            THEN /\ pc' = [pc EXCEPT ![r] = "ValueError"]
                 /\ meters' = [meters EXCEPT ![r] = ms1]
                 /\ loc' = [loc EXCEPT ![r] = l2]
            ELSE /\ pc' = [pc EXCEPT ![r] = "loop"]
                 /\ meters' = [meters EXCEPT ![r] =
                        LoggerUpdate(LoggerUpdate(ms1, "loss", l2.loss_value),
                                     "lr", l2.optimizer.lr)]
                 /\ loc' = [loc EXCEPT ![r] =
                        [l2 EXCEPT !.i = @ + 1,
                                   !.prev = [optimizer |-> l2.optimizer,
                                             model |-> l2.model, ema |-> l2.ema]]]
    /\ UNCHANGED <<cfg, coll, meterVars, logVars>>

\* Lines 160-161 (in evaluate lines 192-195): the mapping of every meter's
\* name to its global_avg.
Return(r) ==
    /\ pc[r] = "synced"
    /\ IF \E k \in 1..Len(meters[r]) : meters[r][k].m.count = 0
       THEN /\ pc' = [pc EXCEPT ![r] = "ZeroDivisionError"]
            /\ loc' = loc
       ELSE /\ pc' = [pc EXCEPT ![r] = "returned"]
            /\ loc' = [loc EXCEPT ![r].result =
                        [k \in 1..Len(meters[r]) |->
                            [name |-> meters[r][k].name, avg |-> GlobalAvg(meters[r][k].m)]]]
    /\ UNCHANGED <<cfg, meters, coll, meterVars, logVars>>

NextTrain ==
    \E r \in Ranks :
        \/ BatchForward(r)
        \/ EvaluateBatch(r)
        \/ StreamEnd(r)
        \/ GateLoss(r)
        \/ GatherKReturn(r)
        \/ GatherLabelReturn(r)
        \/ BatchStep(r)
        \/ SyncBegin(r)
        \/ BarrierReturn(r)
        \/ AllReduceReturn(r)
        \/ Return(r)

SpecTrain == InitTrain /\ [][NextTrain]_vars

\* C1: whenever the composed loss of a batch (primary plus the auxiliary
\* losses added to it) is NaN or infinite the loop aborts in that batch, so
\* no non-finite composed loss ever reaches the backward/optimizer step.
C1_NonFiniteNeverStepped ==
    \A r \in Ranks :
        \A j \in 1..Len(loc[r].backward) : IsFinite(loc[r].backward[j])

Aborted(r) == pc[r] = "ValueError"

\* C2 as claimed: at an abort for a non-finite loss nothing of that batch has
\* mutated anything: optimizer state, model parameters and shadow-model
\* parameters are as the previous batch left them.
C2_NothingMutated ==
    \A r \in Ranks : Aborted(r) =>
        /\ loc[r].optimizer = loc[r].prev.optimizer
        /\ loc[r].model = loc[r].prev.model
        /\ loc[r].ema = loc[r].prev.ema

\* C2 as the code has it: at an abort, zero_grad, the scaler's backward and
\* optimizer step and the shadow-model update have not run for that batch, and
\* neither have the loss and lr records, so gradients, step count, model and
\* shadow parameters are as the previous batch left them; but the lr schedule
\* (with kaiming_sched) has already written that batch's learning rate into
\* the optimizer, and loss_gate (with a contrastive weight) is already recorded.
C2_StepNotRun ==
    \A r \in Ranks : Aborted(r) =>
        LET l == loc[r] IN
        /\ ~IsFinite(l.loss_value)
        /\ l.optimizer.zero_grads = l.prev.optimizer.zero_grads
        /\ l.optimizer.steps = l.prev.optimizer.steps
        /\ l.optimizer.zero_grads = l.i
        /\ Len(l.backward) = l.i
        /\ l.model = l.prev.model
        /\ l.ema = l.prev.ema
        /\ l.optimizer.lr = IF cfg.kaiming_sched THEN l.i + 1 ELSE l.prev.optimizer.lr
        /\ cfg.kaiming_sched => l.optimizer.lr # l.prev.optimizer.lr
        /\ \A k \in 1..Len(meters[r]) :
            meters[r][k].m.count = IF meters[r][k].name = "loss_gate" THEN l.i + 1 ELSE l.i

\* An abort in the second batch, after a first batch that stepped the
\* optimizer and updated the shadow model, with the lr schedule on.
C2_Witness ==
    \E r \in Ranks :
        /\ Aborted(r)
        /\ cfg.kaiming_sched /\ cfg.model_ema /\ cfg.moe_contrastive_weight > 0
        /\ loc[r].i = 1
        /\ loc[r].model = 1 /\ loc[r].ema = 1
        /\ loc[r].optimizer.steps = 1

\* C7: once a rank has raised for a non-finite loss, no other rank raises on
\* that account (a rank raises only for its own loss_value), none gets through
\* a collective the raising rank never joined, so each is at most waiting in
\* the one collective it issued beyond those, and none returns; and when
\* nothing can move any more, every rank has raised or waits in a collective.
C7_OthersStall ==
    \A p \in Ranks : Aborted(p) =>
        /\ \A q \in Ranks \ {p} :
            /\ pc[q] \notin {"synced", "returned", "ZeroDivisionError"}
            /\ Aborted(q) => ~IsFinite(loc[q].loss_value)
            /\ Len(coll[q]) > Len(coll[p]) =>
                /\ pc[q] \in CollectivePcs
                /\ Len(coll[q]) = Len(coll[p]) + 1
                /\ ~CollectiveComplete(q)
        /\ ~(ENABLED NextTrain) =>
            \A q \in Ranks : Aborted(q) \/ pc[q] \in CollectivePcs

\* Rank 0 raised in the first batch; rank 1 went on and waits in the
\* contrastive gather of the second batch, which rank 0 never joins.
C7_Witness ==
    /\ Aborted(0) /\ loc[0].i = 0
    /\ pc[1] = "gather_k" /\ loc[1].i = 1
    /\ Len(coll[1]) = Len(coll[0]) + 1
    /\ ~CollectiveComplete(1)

\* Rank 0 raised in the last batch of a run without contrastive loss; rank 1
\* finished its stream and waits in the barrier of the first statistic.
C7_WitnessBarrier ==
    /\ Aborted(0) /\ loc[0].i = cfg.len - 1
    /\ cfg.moe_contrastive_weight = 0
    /\ pc[1] = "barrier" /\ loc[1].i = cfg.len
    /\ coll[0] = <<>> /\ Len(coll[1]) = 1

NoAbort == \A r \in Ranks : ~Aborted(r)

\* The names of a rank's registry, in registration order.
Names(r) == [k \in 1..Len(meters[r]) |-> meters[r][k].name]

\* The c-th collectives of two ranks are calls of the same operation on the
\* same thing (for a gather: the keys or the labels).
SameCall(p, q, c) ==
    /\ coll[p][c].op = coll[q][c].op
    /\ coll[p][c].op = "all_gather" => coll[p][c].t = coll[q][c].t

\* C11: when all ranks run train_one_epoch (or evaluate) with the same
\* configuration over streams of the same length and none hits a non-finite
\* loss, they issue
\* the same sequence of collectives (the gathers of each batch, then a
\* barrier/reduction pair per metric over the same names in the same order),
\* none is left waiting in a collective, and all return their metric mapping.
C11_AllReturn ==
    NoAbort =>
        /\ \A p, q \in Ranks :
            /\ \A c \in 1..Min2(Len(coll[p]), Len(coll[q])) : SameCall(p, q, c)
            /\ ({pc[p], pc[q]} \subseteq {"barrier", "all_reduce", "synced", "returned"})
                  => Names(p) = Names(q)
        /\ ~(ENABLED NextTrain) =>
            \A r \in Ranks :
                /\ pc[r] = "returned"
                /\ Len(loc[r].result) = Len(meters[r])
                /\ Ops(r) = Ops(0)

\* The same for the non-empty streams, on which the code does this.
C11_NonEmpty == (cfg.len = 0) \/ C11_AllReturn

\* Every rank returned after two batches with the supervised contrastive loss.
C11_ReturnedRun ==
    /\ cfg.len = 2 /\ cfg.moe_contrastive_supervised
    /\ \A r \in Ranks : pc[r] = "returned" /\ Len(coll[r]) = 4 + 2 * 3

\* Every rank returned from evaluate after two batches of different sizes on
\* the two ranks: a barrier/reduction pair for each of loss, acc1 and acc5.
C11_EvaluatedRun ==
    /\ cfg.fn = "evaluate" /\ cfg.len = 2
    /\ \A r \in Ranks :
        /\ pc[r] = "returned"
        /\ Names(r) = <<"loss", "acc1", "acc5">>
        /\ Ops(r) = <<"barrier", "all_reduce", "barrier", "all_reduce",
                      "barrier", "all_reduce">>
        /\ meters[r][1].m.count = 4
    /\ loc[0].local[2].m.count = 2 /\ loc[1].local[2].m.count = 4
    /\ meters[0][2].m.count = 6

====
